---- MODULE Spec2Model ----
(***************************************************************************)
(* The task store of finalproject.py: class Task (one record) and class    *)
(* Tasks (the in-memory list, its pickle file, and the operations          *)
(* add_task, delete_task, mark_complete, list_tasks, generate_report).     *)
(*                                                                         *)
(* Values.  Python None is the empty tuple.  A datetime made by strptime   *)
(* is the tuple <<year, month, day>>, compared field by field as datetime  *)
(* compares.  A datetime made by datetime.now() is the number of the clock *)
(* read that produced it: every read returns a later instant than the      *)
(* reads before it.  An optional timestamp is None or <<t>>.  A str is a   *)
(* tuple of one-character strings.                                         *)
(***************************************************************************)
EXTENDS Integers, Sequences, FiniteSets, TLC

VARIABLES
    tasks,      \* Tasks.tasks: the in-memory list of Task objects
    file,       \* the file at Tasks.file_path: <<>> if absent, else <<bytes>>
    clock,      \* number of datetime.now() reads made so far
    last,       \* the last call on the store: [op, arg, ret]
    pre,        \* history: Tasks.tasks as it was when the last call began
    added,      \* history: the ids returned by the add_task calls, in order
    removed,    \* history: the ids of the tasks delete_task has removed
    deleteCalled, \* history: whether delete_task was ever called
    doneIds,    \* history: the ids mark_complete was called with while an open task had that id
    exc,        \* the exception the last call raised to its caller, None if it returned
    procs,      \* the running commands: process |-> [pc, argv, tasks, out, exc]
    raced,      \* history: a command built its store while another had built its own and not yet run its operation
    lastWriter  \* history: the process that wrote the file last, "none" if none did

storeVars == <<tasks, last, pre, added, removed, deleteCalled, doneIds, exc>>

cliVars == <<procs, raced, lastWriter>>

vars == <<tasks, file, clock, last, pre, added, removed, deleteCalled, doneIds, exc,
          procs, raced, lastWriter>>

\* Number of datetime.now() reads a behaviour may make.
MaxTime == 3

None == <<>>

\* Exceptions: datetime.strptime raises ValueError, pickle.load UnpicklingError.
ValueError == <<"ValueError">>

UnpicklingError == <<"UnpicklingError">>

\* datetime.max
DatetimeMax == <<9999, 12, 31>>

(***************************************************************************)
(* Inputs.                                                                 *)
(***************************************************************************)
\* add_task argument triples <<name, priority, due_date>>: the priority is one of
\* argparse's choices 1, 2, 3; the due date is a --due text "MM/DD/YYYY" given as
\* <<MM, DD, YYYY>>, or None when --due is absent.
AddArgs ==
    { << <<"A", "b">>, 1, <<1, 1, 2025>> >>,
      << <<"c">>,      3, <<1, 1, 2025>> >>,
      << <<"c">>,      3, None >>,
      << <<"A", "b">>, 2, <<12, 25, 2024>> >>,
      << <<"b", "C">>, 1, None >>,
      << <<"c">>,      1, <<13, 1, 2025>> >> }

\* --query term lists (nargs='+': at least one term).
Queries == { << <<"a">> >>, << <<"B">> >>, << <<"x">>, <<"C">> >> }

\* Task ids a caller passes to delete_task and mark_complete.
Ids == 0 .. MaxTime

(***************************************************************************)
(* str.lower and the substring test `q in s`.                              *)
(***************************************************************************)
LowerChar(c) ==
    CASE c = "A" -> "a"
      [] c = "B" -> "b"
      [] c = "C" -> "c"
      [] OTHER -> c

lower(s) == [i \in 1 .. Len(s) |-> LowerChar(s[i])]

Contains(q, s) ==
    \E i \in 0 .. (Len(s) - Len(q)) : SubSeq(s, i + 1, i + Len(q)) = q

(***************************************************************************)
(* datetime.strptime(due_date, '%m/%d/%Y') and datetime comparison.        *)
(***************************************************************************)
IsLeap(y) == y % 4 = 0 /\ (y % 100 # 0 \/ y % 400 = 0)

DaysInMonth(m, y) ==
    IF m = 2 THEN (IF IsLeap(y) THEN 29 ELSE 28)
    ELSE IF m \in {4, 6, 9, 11} THEN 30 ELSE 31

\* Mutant of strptime_raises: any text is accepted.
strptime_never_raises(text) == FALSE

\* strptime raises ValueError unless the text is a date of the calendar.
strptime_raises(text) ==
    ~ /\ text[1] \in 1 .. 12
      /\ text[3] \in 1 .. 9999
      /\ text[2] \in 1 .. DaysInMonth(text[1], text[3])

strptime(text) == <<text[3], text[1], text[2]>>

DatetimeLess(a, b) ==
    \/ a[1] < b[1]
    \/ a[1] = b[1] /\ a[2] < b[2]
    \/ a[1] = b[1] /\ a[2] = b[2] /\ a[3] < b[3]

(***************************************************************************)
(* class Task                                                              *)
(***************************************************************************)
Now == clock + 1

Task(task_id, name, priority, due_date) ==
    [ task_id   |-> task_id,
      name      |-> name,
      priority  |-> priority,
      created   |-> Now,
      due_date  |-> IF due_date # None THEN strptime(due_date) ELSE None,
      completed |-> None ]

\* Mutant of Task_mark_complete: marking a completed task again reopens it.
Task_toggle_complete(t) ==
    [t EXCEPT !.completed = IF t.completed = None THEN <<Now>> ELSE None]

Task_mark_complete(t) == [t EXCEPT !.completed = <<Now>>]

is_completed(t) == t.completed # None

(***************************************************************************)
(* pickle.dump / pickle.load of a list of Task objects: each object is     *)
(* written as its class name and the values of its attributes.             *)
(***************************************************************************)
PickleTask(t) ==
    <<"Task", t.task_id, t.name, t.priority, t.created, t.due_date, t.completed>>

\* Mutant of UnpickleTask: the completed attribute is not restored.
UnpickleTaskLosesCompleted(b) ==
    [ task_id   |-> b[2],
      name      |-> b[3],
      priority  |-> b[4],
      created   |-> b[5],
      due_date  |-> b[6],
      completed |-> None ]

UnpickleTask(b) ==
    [ task_id   |-> b[2],
      name      |-> b[3],
      priority  |-> b[4],
      created   |-> b[5],
      due_date  |-> b[6],
      completed |-> b[7] ]

pickle_dump(ts) == [i \in 1 .. Len(ts) |-> PickleTask(ts[i])]

pickle_load(bytes) == [i \in 1 .. Len(bytes) |-> UnpickleTask(bytes[i])]

\* pickle.load raises unless the bytes are a pickled list of Task objects.
Decodable(bytes) ==
    \A i \in 1 .. Len(bytes) : Len(bytes[i]) = 7 /\ bytes[i][1] = "Task"

load_raises(f) == f # <<>> /\ ~Decodable(f[1])

_load_tasks == IF file # <<>> THEN pickle_load(file[1]) ELSE <<>>

\* Mutant of open_store: a file that does not load is taken for an empty store.
open_store_resets_on_error(f) ==
    IF load_raises(f) THEN [ tasks |-> <<>>, exc |-> None ]
    ELSE [ tasks |-> IF f # <<>> THEN pickle_load(f[1]) ELSE <<>>, exc |-> None ]

\* Tasks.__init__ on the file f: the loaded list, or the exception of pickle.load.
open_store(f) ==
    IF load_raises(f) THEN [ tasks |-> <<>>, exc |-> UnpicklingError ]
    ELSE [ tasks |-> IF f # <<>> THEN pickle_load(f[1]) ELSE <<>>, exc |-> None ]

save_tasks(ts) == << pickle_dump(ts) >>

(***************************************************************************)
(* The sort of list_tasks and generate_report:                             *)
(*   sort(key=lambda t: (t.due_date or datetime.max, -t.priority))         *)
(* list.sort is stable.                                                    *)
(***************************************************************************)
\* Mutant of SortKey: the priority is not negated (ascending priority).
SortKeyPriorityAscending(t) ==
    << IF t.due_date # None THEN t.due_date ELSE DatetimeMax, t.priority >>

SortKey(t) == << IF t.due_date # None THEN t.due_date ELSE DatetimeMax, -t.priority >>

KeyLess(k1, k2) ==
    \/ DatetimeLess(k1[1], k2[1])
    \/ k1[1] = k2[1] /\ k1[2] < k2[2]

\* Insert t into the sorted sequence s after every element whose key is not greater.
RECURSIVE InsertSorted(_, _)
InsertSorted(t, s) ==
    IF s = <<>> THEN <<t>>
    ELSE IF KeyLess(SortKey(t), SortKey(Head(s))) THEN <<t>> \o s
    ELSE <<Head(s)>> \o InsertSorted(t, Tail(s))

RECURSIVE SortFrom(_, _)
SortFrom(s, acc) ==
    IF s = <<>> THEN acc ELSE SortFrom(Tail(s), InsertSorted(Head(s), acc))

sort(s) == SortFrom(s, <<>>)

(***************************************************************************)
(* class Tasks                                                             *)
(***************************************************************************)
\* Mutant of SelectOpen: completed tasks are not filtered out.
SelectOpenKeepsAll(ts) == ts

SelectOpen(ts) == SelectSeq(ts, LAMBDA t : ~is_completed(t))

\* Mutant of Matches: the task name is compared without lower().
MatchesNameCase(t, query) == \E i \in 1 .. Len(query) : Contains(lower(query[i]), t.name)

Matches(t, query) == \E i \in 1 .. Len(query) : Contains(lower(query[i]), lower(t.name))

SelectQuery(ts, query) ==
    IF query # None THEN SelectSeq(ts, LAMBDA t : Matches(t, query)) ELSE ts

list_tasks(ts, query) == sort(SelectQuery(SelectOpen(ts), query))

KeepOthers(ts, task_id) == SelectSeq(ts, LAMBDA t : t.task_id # task_id)

\* Index of the first task with this id, 0 if there is none.
FirstWithId(ts, task_id) ==
    IF \E i \in 1 .. Len(ts) : ts[i].task_id = task_id
    THEN CHOOSE i \in 1 .. Len(ts) :
            /\ ts[i].task_id = task_id
            /\ \A j \in 1 .. (i - 1) : ts[j].task_id # task_id
    ELSE 0

\* Mutant of NewTaskId: ids are counted from 0.
NewTaskIdFromZero(ts) == Len(ts)

NewTaskId(ts) == Len(ts) + 1

\* Mutant of mark_complete: save_tasks runs after the loop too, as in delete_task.
mark_complete_saves_always(ts, task_id) ==
    LET i == FirstWithId(ts, task_id) IN
    IF i # 0
    THEN [ tasks |-> [ts EXCEPT ![i] = Task_mark_complete(ts[i])],
           save |-> TRUE, reads |-> 1, ret |-> TRUE, exc |-> None ]
    ELSE [ tasks |-> ts, save |-> TRUE, reads |-> 0, ret |-> FALSE, exc |-> None ]

\* The for loop of mark_complete: the first task with the id is marked and the list
\* saved; `reads` is the number of clock reads made, `save` whether save_tasks ran.
mark_complete(ts, task_id) ==
    LET i == FirstWithId(ts, task_id) IN
    IF i # 0
    THEN [ tasks |-> [ts EXCEPT ![i] = Task_mark_complete(ts[i])],
           save |-> TRUE, reads |-> 1, ret |-> TRUE, exc |-> None ]
    ELSE [ tasks |-> ts, save |-> FALSE, reads |-> 0, ret |-> FALSE, exc |-> None ]

\* add_task: Task() reads the clock and then parses the due date; when the parse
\* raises, nothing is appended or saved and the exception leaves add_task.
add_task(ts, name, priority, due_date) ==
    IF due_date # None /\ strptime_raises(due_date)
    THEN [ tasks |-> ts, save |-> FALSE, reads |-> 1, ret |-> None, exc |-> ValueError ]
    ELSE [ tasks |-> Append(ts, Task(NewTaskId(ts), name, priority, due_date)),
           save |-> TRUE, reads |-> 1, ret |-> NewTaskId(ts), exc |-> None ]

delete_task(ts, task_id) ==
    [ tasks |-> KeepOthers(ts, task_id), save |-> TRUE, reads |-> 0, ret |-> None, exc |-> None ]

\* Mutant of list_tasks_call: self.tasks is sorted in place before it is filtered.
list_tasks_sorts_in_place(ts, query) ==
    [ tasks |-> sort(ts), save |-> FALSE, reads |-> 0, ret |-> list_tasks(ts, query), exc |-> None ]

\* list_tasks sorts the filtered copy; self.tasks is left as it is.
list_tasks_call(ts, query) ==
    [ tasks |-> ts, save |-> FALSE, reads |-> 0, ret |-> list_tasks(ts, query), exc |-> None ]

\* Mutant of generate_report: completed tasks are left out, as in list_tasks.
generate_report_open_only(ts) ==
    [ tasks |-> sort(SelectOpen(ts)), save |-> FALSE, reads |-> 0,
      ret |-> sort(SelectOpen(ts)), exc |-> None ]

\* generate_report sorts self.tasks in place and returns it.
generate_report(ts) ==
    [ tasks |-> sort(ts), save |-> FALSE, reads |-> 0, ret |-> sort(ts), exc |-> None ]

HasId(ts, task_id) == \E i \in 1 .. Len(ts) : ts[i].task_id = task_id

HasOpenId(ts, task_id) ==
    \E i \in 1 .. Len(ts) : ts[i].task_id = task_id /\ ts[i].completed = None

Init ==
    /\ file = <<>>
    /\ tasks = <<>>
    /\ clock = 0
    /\ last = [op |-> "init", arg |-> None, ret |-> None]
    /\ pre = <<>>
    /\ added = <<>>
    /\ removed = {}
    /\ deleteCalled = FALSE
    /\ doneIds = {}
    /\ exc = None
    /\ procs = <<>>
    /\ raced = FALSE
    /\ lastWriter = "none"

\* The effect of a call on the store object, the file and the clock.
Effect(op, arg, r) ==
    /\ r.reads = 0 \/ clock < MaxTime
    /\ tasks' = r.tasks
    /\ file' = IF r.save THEN save_tasks(r.tasks) ELSE file
    /\ clock' = clock + r.reads
    /\ last' = [op |-> op, arg |-> arg, ret |-> r.ret]
    /\ exc' = r.exc
    /\ pre' = tasks
    /\ UNCHANGED cliVars

\* Tasks(): a new store object on the same file.  When the load raises, the
\* caller gets the exception and no new object.
Open ==
    LET r == open_store(file) IN
    /\ tasks' = IF r.exc = None THEN r.tasks ELSE tasks
    /\ last' = [op |-> "open", arg |-> None, ret |-> None]
    /\ exc' = r.exc
    /\ pre' = tasks'
    /\ UNCHANGED <<file, clock, added, removed, deleteCalled, doneIds>>
    /\ UNCHANGED cliVars

AddTask ==
    \E args \in AddArgs :
        LET r == add_task(tasks, args[1], args[2], args[3]) IN
        /\ Effect("add", args, r)
        /\ added' = IF r.exc = None THEN Append(added, r.ret) ELSE added
        /\ UNCHANGED <<removed, deleteCalled, doneIds>>

DeleteTask ==
    \E task_id \in Ids :
        /\ Effect("delete", task_id, delete_task(tasks, task_id))
        /\ removed' = IF FirstWithId(tasks, task_id) # 0 THEN removed \cup {task_id} ELSE removed
        /\ deleteCalled' = TRUE
        /\ UNCHANGED <<added, doneIds>>

MarkComplete ==
    \E task_id \in Ids :
        /\ Effect("done", task_id, mark_complete(tasks, task_id))
        /\ doneIds' = IF HasOpenId(tasks, task_id) THEN doneIds \cup {task_id} ELSE doneIds
        /\ UNCHANGED <<added, removed, deleteCalled>>

ListTasks ==
    \E query \in Queries \cup {None} :
        /\ Effect("list", query, list_tasks_call(tasks, query))
        /\ UNCHANGED <<added, removed, deleteCalled, doneIds>>

GenerateReport ==
    /\ Effect("report", None, generate_report(tasks))
    /\ UNCHANGED <<added, removed, deleteCalled, doneIds>>

Next ==
    \/ Open
    \/ AddTask
    \/ DeleteTask
    \/ MarkComplete
    \/ ListTasks
    \/ GenerateReport

Spec == Init /\ [][Next]_vars

(***************************************************************************)
(* main(): one command invocation is a process that parses its arguments,  *)
(* builds a store (Tasks(), which loads the file) and then runs the first  *)
(* branch of the if/elif chain whose argument is truthy.                   *)
(*                                                                         *)
(* argv is the parsed command line: `flags` are the options given, and the *)
(* other fields their values (int options hold 0 and str options "" when   *)
(* that is the value given; the value of an option not given is not read). *)
(***************************************************************************)
Argv(flags, add, priority, due, delete, done, query) ==
    [ flags |-> flags, add |-> add, priority |-> priority, due |-> due,
      delete |-> delete, done |-> done, query |-> query ]

NoArgv == Argv({}, <<>>, 1, None, 0, 0, <<>>)

\* Command lines of the single-command runs.
MainArgs ==
    { Argv({"add"}, <<"c">>, 3, None, 0, 0, <<>>),
      Argv({"add", "delete", "list"}, <<"A", "b">>, 1, <<1, 1, 2025>>, 1, 0, <<>>),
      Argv({"add", "list"}, <<>>, 1, None, 0, 0, <<>>),
      Argv({"delete"}, <<>>, 1, None, 0, 0, <<>>),
      Argv({"delete", "done"}, <<>>, 1, None, 1, 1, <<>>),
      Argv({"done", "list"}, <<>>, 1, None, 0, 1, <<>>),
      Argv({"done", "report"}, <<>>, 1, None, 0, 0, <<>>),
      Argv({"list", "query", "report"}, <<>>, 1, None, 0, 0, << <<"C">> >>),
      Argv({"query", "report"}, <<>>, 1, None, 0, 0, << <<"C">> >>),
      Argv({"report"}, <<>>, 1, None, 0, 0, <<>>),
      NoArgv }

\* Command lines of the two racing commands.
RaceArgs ==
    { Argv({"add"}, <<"c">>, 3, None, 0, 0, <<>>),
      Argv({"add"}, <<"A", "b">>, 1, <<1, 1, 2025>>, 0, 0, <<>>),
      Argv({"delete"}, <<>>, 1, None, 1, 0, <<>>),
      Argv({"done"}, <<>>, 1, None, 0, 1, <<>>),
      Argv({"list"}, <<>>, 1, None, 0, 0, <<>>) }

\* A file that is no pickle.
GarbageFile == << << <<"garbage">> >> >>

\* The file after `--add c --priority 3` on an absent file, at the first instant.
OneTaskFile ==
    save_tasks(<< [ task_id |-> 1, name |-> <<"c">>, priority |-> 3, created |-> 1,
                    due_date |-> None, completed |-> None ] >>)

\* The if/elif chain of main: `if args.add:` and the like test truthiness, and
\* "" and 0 are not truthy.
Branch(a) ==
    IF "add" \in a.flags /\ a.add # <<>> THEN "add"
    ELSE IF "delete" \in a.flags /\ a.delete # 0 THEN "delete"
    ELSE IF "done" \in a.flags /\ a.done # 0 THEN "done"
    ELSE IF "list" \in a.flags THEN "list"
    ELSE IF "query" \in a.flags /\ a.query # <<>> THEN "query"
    ELSE IF "report" \in a.flags THEN "report"
    ELSE "usage"

\* The store call of a branch, on the list ts of the command's store object.
BranchCall(b, a, ts) ==
    CASE b = "add" -> add_task(ts, a.add, a.priority, a.due)
      [] b = "delete" -> delete_task(ts, a.delete)
      [] b = "done" -> mark_complete(ts, a.done)
      [] b = "list" -> list_tasks_call(ts, None)
      [] b = "query" -> list_tasks_call(ts, a.query)
      [] b = "report" -> generate_report(ts)
      [] OTHER -> [ tasks |-> ts, save |-> FALSE, reads |-> 0, ret |-> None, exc |-> None ]

\* Mutant of store_of: the store's list is read from the file again at each call.
store_reloaded(p) == IF file # <<>> THEN pickle_load(file[1]) ELSE <<>>

\* self.tasks of the command's store object: loaded once, in Tasks.__init__.
store_of(p) == procs[p].tasks

IdleProc == [ pc |-> "idle", argv |-> NoArgv, tasks |-> <<>>, out |-> "", exc |-> None ]

\* args = parser.parse_args(); tasks = Tasks()
Start(p, argset, again) ==
    /\ procs[p].pc = "idle" \/ (again /\ procs[p].pc = "exited")
    /\ \E a \in argset :
          LET r == open_store(file) IN
          procs' = [procs EXCEPT ![p] =
                      [ pc |-> IF r.exc = None THEN "loaded" ELSE "exited",
                        argv |-> a, tasks |-> r.tasks, out |-> "", exc |-> r.exc ]]
    /\ raced' = (raced \/ \E q \in DOMAIN procs : q # p /\ procs[q].pc = "loaded")
    /\ UNCHANGED <<file, clock, lastWriter>>
    /\ UNCHANGED storeVars

\* The if/elif chain of main, and the end of the command.
Dispatch(p) ==
    /\ procs[p].pc = "loaded"
    /\ LET a == procs[p].argv
           b == Branch(a)
           r == BranchCall(b, a, store_of(p))
       IN  /\ r.reads = 0 \/ clock < MaxTime
           /\ procs' = [procs EXCEPT ![p] =
                          [ pc |-> "exited", argv |-> a, tasks |-> r.tasks,
                            out |-> b, exc |-> r.exc ]]
           /\ file' = IF r.save THEN save_tasks(r.tasks) ELSE file
           /\ clock' = clock + r.reads
           /\ lastWriter' = IF r.save THEN p ELSE lastWriter
    /\ UNCHANGED raced
    /\ UNCHANGED storeVars

StoreIdle ==
    /\ tasks = <<>>
    /\ last = [op |-> "init", arg |-> None, ret |-> None]
    /\ pre = <<>>
    /\ added = <<>>
    /\ removed = {}
    /\ deleteCalled = FALSE
    /\ doneIds = {}
    /\ exc = None
    /\ raced = FALSE
    /\ lastWriter = "none"

\* One command after another, on a file that is absent or no pickle at first.
InitMain ==
    /\ StoreIdle
    /\ file \in { <<>>, GarbageFile }
    /\ clock = 0
    /\ procs = [p \in {"p1"} |-> IdleProc]

NextMain ==
    \/ Start("p1", MainArgs, TRUE)
    \/ Dispatch("p1")

SpecMain == InitMain /\ [][NextMain]_vars

\* Two commands at the same time, each run once, on a file that is absent or
\* holds one task.
InitRace ==
    /\ StoreIdle
    /\ \/ file = <<>> /\ clock = 0
       \/ file = OneTaskFile /\ clock = 1
    /\ procs = [p \in {"p1", "p2"} |-> IdleProc]

NextRace ==
    \/ \E p \in {"p1", "p2"} : Start(p, RaceArgs, FALSE)
    \/ \E p \in {"p1", "p2"} : Dispatch(p)

SpecRace == InitRace /\ [][NextRace]_vars

(***************************************************************************)
(* Properties of the store.                                                *)
(***************************************************************************)
Listed(seq) == { seq[i] : i \in 1 .. Len(seq) }

\* C1: no two tasks of the store's sequence have the same id.
TaskIdsUnique ==
    \A i, j \in 1 .. Len(tasks) : i # j => tasks[i].task_id # tasks[j].task_id

\* C2: once delete_task has removed a task with id k, no later add_task
\* returns (creates a task with) id k.
IdNotReusedAfterDelete ==
    (last.op = "add" /\ exc = None) => last.ret \notin removed

\* C3: each add_task returns the task count before the call plus 1; and as long
\* as delete_task was never called, the k-th add_task returned k and the store
\* holds exactly the tasks with ids 1..N, numbered in the order they were added.
AddReturnsCountPlusOne ==
    /\ (last.op = "add" /\ exc = None) => last.ret = Len(pre) + 1
    /\ ~deleteCalled =>
          /\ \A k \in 1 .. Len(added) : added[k] = k
          /\ Len(tasks) = Len(added)
          /\ { tasks[i].task_id : i \in 1 .. Len(tasks) } = 1 .. Len(added)
          /\ \A i, j \in 1 .. Len(tasks) :
                tasks[i].created < tasks[j].created => tasks[i].task_id < tasks[j].task_id

\* C3 witness: three adds and no delete, the last add returning 3, after a
\* generate_report had put the task added second in front of the one added first.
ThreeAddsNoDelete ==
    /\ ~deleteCalled
    /\ last.op = "add" /\ exc = None /\ last.ret = 3
    /\ Len(tasks) = 3 /\ tasks[1].task_id = 2 /\ tasks[2].task_id = 1

\* C4: a task whose completed field has a value keeps exactly that value for as
\* long as it is in the store (a task is identified by its creation instant).
CompletedNeverChanges ==
    \A i \in 1 .. Len(pre), j \in 1 .. Len(tasks) :
        (pre[i].created = tasks[j].created /\ pre[i].completed # None)
            => tasks[j].completed = pre[i].completed

DueBefore(a, b) ==
    /\ a.due_date # None
    /\ b.due_date # None =>
          \/ a.due_date[1] < b.due_date[1]
          \/ a.due_date[1] = b.due_date[1] /\ a.due_date[2] < b.due_date[2]
          \/ a.due_date[1] = b.due_date[1] /\ a.due_date[2] = b.due_date[2]
                /\ a.due_date[3] < b.due_date[3]

InRuleOrder(a, b) ==
    \/ DueBefore(a, b)
    \/ a.due_date = b.due_date /\ a.priority > b.priority
    \/ a.due_date = b.due_date /\ a.priority = b.priority /\ a.created < b.created

\* C6: what list_tasks and generate_report return is ordered by due date
\* ascending with tasks without a due date last, then by priority descending,
\* and tasks equal on both keys are in the order they were added.
ResultInRuleOrder ==
    last.op \in {"list", "report"} =>
        \A i, j \in 1 .. Len(last.ret) : i < j => InRuleOrder(last.ret[i], last.ret[j])

\* C6 witness: the store holds (1/1/2025, p1), (1/1/2025, p3), (no due, p3) in
\* that order and list_tasks returned [p3 1/1/2025, p1 1/1/2025, no-due p3].
ListOfSpecExample ==
    /\ last.op = "list" /\ last.arg = None
    /\ Len(tasks) = 3
    /\ tasks[1].priority = 1 /\ tasks[1].due_date = <<2025, 1, 1>>
    /\ tasks[2].priority = 3 /\ tasks[2].due_date = <<2025, 1, 1>>
    /\ tasks[3].priority = 3 /\ tasks[3].due_date = None
    /\ last.ret = <<tasks[2], tasks[1], tasks[3]>>

\* Two characters are the same letter, whatever their case.
SameLetter(c, d) ==
    \/ c = d
    \/ {c, d} \in { {"a", "A"}, {"b", "B"}, {"c", "C"} }

\* term occurs in name as a substring, ignoring case.
OccursIgnoringCase(term, name) ==
    \E k \in 0 .. (Len(name) - Len(term)) :
        \A m \in 1 .. Len(term) : SameLetter(term[m], name[k + m])

MarkCompleteExcludesId ==
    /\ (last.op = "done" /\ HasOpenId(pre, last.arg)) => last.ret = TRUE
    /\ last.op = "list" =>
          \A i \in 1 .. Len(last.ret) : last.ret[i].task_id \notin doneIds

\* C9: mark_complete(id) for an id no task has returns False, leaves the
\* in-memory sequence unchanged and does not write the file.
MarkCompleteStep ==
    (last'.op = "done" /\ ~HasId(tasks, last'.arg)) =>
        /\ last'.ret = FALSE
        /\ tasks' = tasks
        /\ file' = file

MarkCompleteNotFoundIsNoOp == [][MarkCompleteStep]_vars

\* C9 witness: mark_complete returned False on a store that holds tasks and whose
\* in-memory order differs from the order in the file.
MarkCompleteNotFound ==
    /\ last.op = "done" /\ last.ret = FALSE
    /\ Len(tasks) = 2 /\ ~HasId(tasks, last.arg)
    /\ file # save_tasks(tasks)

\* C10: delete_task(id) removes exactly one task when a task has the id, keeping
\* the others unmodified and in order; removes nothing when no task has the id;
\* and writes the file in both cases.
DeleteRemovesExactlyOne ==
    last.op = "delete" =>
        /\ IF HasId(pre, last.arg)
           THEN /\ Len(tasks) = Len(pre) - 1
                /\ \E k \in 1 .. Len(pre) :
                      tasks = SubSeq(pre, 1, k - 1) \o SubSeq(pre, k + 1, Len(pre))
           ELSE tasks = pre
        /\ file = save_tasks(tasks)

NoSuchMonth(text) == text # None /\ text[1] \notin 1 .. 12

\* C12: add_task with a malformed due-date text raises to its caller and leaves
\* the in-memory sequence and the file as they were; the id is not consumed (the
\* next task gets the id this one would have got).
AddMalformedStep ==
    (last'.op = "add" /\ NoSuchMonth(last'.arg[3])) =>
        /\ exc' = ValueError
        /\ tasks' = tasks
        /\ file' = file
        /\ NewTaskId(tasks') = NewTaskId(tasks)

AddMalformedAborts == [][AddMalformedStep]_vars

\* C12 witness: add_task has just raised ValueError on a store that holds one
\* saved task.
AddMalformedRaised ==
    /\ last.op = "add" /\ exc = ValueError
    /\ Len(tasks) = 1 /\ file = save_tasks(tasks)

\* The task sequence the file holds; an absent file holds the empty sequence.
FileTasks == IF file = <<>> THEN <<>> ELSE pickle_load(file[1])

StoreOps == {"add", "delete", "done", "list", "report"}

\* C16: after every completed store operation the task sequence in the file
\* equals the in-memory sequence, element for element and in the same order.
FileEqualsMemory ==
    (last.op \in StoreOps /\ exc = None) => FileTasks = tasks

\* C17: the sequence written to the file lists the remaining tasks in the order
\* in which they were added.
FileInInsertionOrder ==
    \A i, j \in 1 .. Len(FileTasks) :
        i < j => FileTasks[i].created < FileTasks[j].created

\* C18: generate_report returns all tasks of the store, completed and open, each
\* once and unmodified, in the order of the sort rule; it reorders the in-memory
\* sequence to that order and does nothing else: the file is not written.
ReportStep ==
    last'.op = "report" =>
        /\ Len(last'.ret) = Len(tasks)
        /\ Listed(last'.ret) = Listed(tasks)
        /\ \A i, j \in 1 .. Len(last'.ret) :
              i < j => InRuleOrder(last'.ret[i], last'.ret[j])
        /\ tasks' = last'.ret
        /\ file' = file
        /\ clock' = clock
        /\ exc' = None

ReportReturnsAllSorted == [][ReportStep]_vars

\* C18 witness: a report of two tasks, one of them completed, that changed the
\* in-memory order and left the file in the old order.
ReportReordered ==
    /\ last.op = "report" /\ Len(last.ret) = 2
    /\ \E i \in 1 .. 2 : last.ret[i].completed # None
    /\ tasks # pre /\ FileTasks = pre

\* C19: a task that is completed is completed in every later state in which it
\* is still in the store (a task is identified by its creation instant).
CompletionStep ==
    \A i \in 1 .. Len(tasks), j \in 1 .. Len(tasks') :
        (tasks[i].created = tasks'[j].created /\ tasks[i].completed # None)
            => tasks'[j].completed # None

CompletionIsOneWay == [][CompletionStep]_vars

\* C19 witness: mark_complete was called again on a completed task, which is
\* still completed.
MarkedCompleteTwice ==
    /\ last.op = "done" /\ last.ret = TRUE
    /\ \E i \in 1 .. Len(pre) :
          /\ FirstWithId(pre, last.arg) = i
          /\ pre[i].completed # None
          /\ tasks[i].completed # None

\* C20: list_tasks, with or without query terms, leaves the in-memory sequence
\* (contents and order) and the file unchanged.
ListStep ==
    last'.op = "list" => (tasks' = tasks /\ file' = file)

ListIsReadOnly == [][ListStep]_vars

\* C20 witness: list_tasks returned every task of the store in another order
\* than the store holds them, and the store still holds them in its order.
ListSortedACopy ==
    /\ last.op = "list"
    /\ Len(last.ret) = 3 /\ Len(tasks) = 3
    /\ last.ret # tasks /\ tasks = pre /\ FileTasks = tasks

\* C13: when the file exists and does not deserialize, the command's Tasks()
\* raises to the caller, the command runs no operation, and the file keeps its
\* content (the store is not reset to empty).
CorruptStep ==
    load_raises(file) =>
        /\ file' = file
        /\ \A p \in DOMAIN procs :
              procs'[p] # procs[p] =>
                  /\ procs'[p].pc = "exited"
                  /\ procs'[p].exc = UnpicklingError
                  /\ procs'[p].out = ""

CorruptStoreSurfaces == [][CorruptStep]_vars

\* C13 witness: a command given --add ended with the exception of the load and
\* the file still holds the bytes that do not load.
AddOnGarbageFailed ==
    /\ file = GarbageFile
    /\ procs["p1"].pc = "exited" /\ procs["p1"].exc = UnpicklingError
    /\ procs["p1"].argv.flags = {"add"} /\ procs["p1"].out = ""

AllExited == \A p \in DOMAIN procs : procs[p].pc = "exited"

\* C14: two commands on the same file never block and never fail; and when both
\* built their store before either ran its operation, the file ends as the
\* sequence of the one that wrote last, without the task the other one added.
LastWriterWins ==
    /\ \A p \in DOMAIN procs :
          /\ procs[p].exc = None
          /\ procs[p].pc = "idle" => ENABLED Start(p, RaceArgs, FALSE)
          /\ procs[p].pc = "loaded" => ENABLED Dispatch(p)
    /\ (raced /\ AllExited /\ lastWriter # "none") =>
          /\ FileTasks = procs[lastWriter].tasks
          /\ \A p \in DOMAIN procs :
                (p # lastWriter /\ procs[p].out = "add") =>
                    procs[p].tasks[Len(procs[p].tasks)] \notin Listed(FileTasks)

\* C14 witness: both commands added a task to an absent file, both had loaded
\* before either saved, and the file holds one task: the one p2 added.
LostUpdate ==
    /\ raced /\ AllExited /\ lastWriter = "p2"
    /\ procs["p1"].out = "add" /\ procs["p2"].out = "add"
    /\ Len(procs["p1"].tasks) = 1
    /\ FileTasks = procs["p2"].tasks /\ Len(FileTasks) = 1

\* The first option given, in the order add, delete, done, list, query, report.
FirstGiven(a) ==
    IF "add" \in a.flags THEN "add"
    ELSE IF "delete" \in a.flags THEN "delete"
    ELSE IF "done" \in a.flags THEN "done"
    ELSE IF "list" \in a.flags THEN "list"
    ELSE IF "query" \in a.flags THEN "query"
    ELSE IF "report" \in a.flags THEN "report"
    ELSE "usage"

\* C15: a command runs the operation of the first option given, in the order
\* add, delete, done, list, query, report, and prints the usage only when none
\* of them is given, whatever the values given (0 and "" included).
FirstMatchWins ==
    \A p \in DOMAIN procs :
        (procs[p].pc = "exited" /\ procs[p].exc = None) =>
            procs[p].out = FirstGiven(procs[p].argv)

====
